---------------------------- MODULE Spec2Model ----------------------------
(***************************************************************************)
(* The GTIN reconciliation pipeline of update-gtin.py: process_gtin_files  *)
(* and the helpers it calls, as a state machine with one action per call   *)
(* of the orchestrator.  A column name is a sequence of characters, so     *)
(* that str.lower() and str.strip() are computed; a cell is a text or the  *)
(* missing value NaN; a DataFrame is its column labels, in order, and its  *)
(* rows, in order.                                                         *)
(***************************************************************************)
EXTENDS Naturals, Sequences, FiniteSets

\* ---------------------------------------------------------------- bounds

\* Most data rows in a customer GTIN file.
MaxCustomerRows == 2
\* Most data rows in a catalog export file.
MaxCatalogRows == 2
\* How many different value streams the three mock-data generators can
\* return in one call of prepare_final_dataframe.
NumSeeds == 2
\* Most column labels of a DataFrame handed to validate_columns on its own.
MaxColumns == 3

\* ------------------------------------------------------------ text

UpperLetters == <<"A", "B", "C", "D", "E", "F", "G", "H", "I", "J", "K", "L", "M",
                  "N", "O", "P", "Q", "R", "S", "T", "U", "V", "W", "X", "Y", "Z">>

LowerLetters == <<"a", "b", "c", "d", "e", "f", "g", "h", "i", "j", "k", "l", "m",
                  "n", "o", "p", "q", "r", "s", "t", "u", "v", "w", "x", "y", "z">>

Whitespace == {" ", "\t"}

\* str.lower() on one character.
lower_char(c) ==
    IF \E i \in DOMAIN UpperLetters : UpperLetters[i] = c
    THEN LowerLetters[CHOOSE i \in DOMAIN UpperLetters : UpperLetters[i] = c]
    ELSE c

\* str.lower()
str_lower(s) == [i \in 1..Len(s) |-> lower_char(s[i])]

RECURSIVE strip_left(_)
strip_left(s) ==
    IF s # <<>> /\ Head(s) \in Whitespace THEN strip_left(Tail(s)) ELSE s

RECURSIVE strip_right(_)
strip_right(s) ==
    IF s # <<>> /\ s[Len(s)] \in Whitespace
    THEN strip_right(SubSeq(s, 1, Len(s) - 1))
    ELSE s

\* str.strip()
str_strip(s) == strip_right(strip_left(s))

\* ------------------------------------------------------------ column names

\* 'sku'
n_sku == <<"s", "k", "u">>
\* 'gtin'
n_gtin == <<"g", "t", "i", "n">>
\* 'name'
n_name == <<"n", "a", "m", "e">>
\* 'url'
n_url == <<"u", "r", "l">>
\* 'image_url'
n_image_url == <<"i", "m", "a", "g", "e", "_", "u", "r", "l">>
\* 'mpn'
n_mpn == <<"m", "p", "n">>
\* 'brand'
n_brand == <<"b", "r", "a", "n", "d">>
\* 'SKU'
n_SKU_upper == <<"S", "K", "U">>
\* ' SKU'
n_SKU_padded == <<" ", "S", "K", "U">>
\* 'Gtin '
n_Gtin_padded == <<"G", "t", "i", "n", " ">>
\* 'GTIN'
n_GTIN_upper == <<"G", "T", "I", "N">>
\* 'Image_URL'
n_Image_URL_mixed == <<"I", "m", "a", "g", "e", "_", "U", "R", "L">>
\* 'note'
n_note == <<"n", "o", "t", "e">>
\* 'product_code'
n_product_code == <<"p", "r", "o", "d", "u", "c", "t", "_", "c", "o", "d", "e">>
\* '_metabase'
suffix_metabase == <<"_", "m", "e", "t", "a", "b", "a", "s", "e">>
\* '_customer'
suffix_customer == <<"_", "c", "u", "s", "t", "o", "m", "e", "r">>
\* 'gtin_metabase'
n_gtin_metabase == <<"g", "t", "i", "n", "_", "m", "e", "t", "a", "b", "a", "s", "e">>
\* 'gtin_customer'
n_gtin_customer == <<"g", "t", "i", "n", "_", "c", "u", "s", "t", "o", "m", "e", "r">>
\* 'final_gtin'
n_final_gtin == <<"f", "i", "n", "a", "l", "_", "g", "t", "i", "n">>
\* 'email'
n_email == <<"e", "m", "a", "i", "l">>
\* 'reference'
n_reference == <<"r", "e", "f", "e", "r", "e", "n", "c", "e">>
\* 'firstName'
n_firstName == <<"f", "i", "r", "s", "t", "N", "a", "m", "e">>
\* 'lastName'
n_lastName == <<"l", "a", "s", "t", "N", "a", "m", "e">>
\* 'transactionDate'
n_transactionDate == <<"t", "r", "a", "n", "s", "a", "c", "t", "i", "o", "n", "D", "a", "t", "e">>
\* 'productName'
n_productName == <<"p", "r", "o", "d", "u", "c", "t", "N", "a", "m", "e">>
\* 'productSku'
n_productSku == <<"p", "r", "o", "d", "u", "c", "t", "S", "k", "u">>
\* 'productUrl'
n_productUrl == <<"p", "r", "o", "d", "u", "c", "t", "U", "r", "l">>
\* 'productImageUrl'
n_productImageUrl == <<"p", "r", "o", "d", "u", "c", "t", "I", "m", "a", "g", "e", "U", "r", "l">>
\* 'productBrand'
n_productBrand == <<"p", "r", "o", "d", "u", "c", "t", "B", "r", "a", "n", "d">>
\* 'productGtin'
n_productGtin == <<"p", "r", "o", "d", "u", "c", "t", "G", "t", "i", "n">>
\* 'productMpn'
n_productMpn == <<"p", "r", "o", "d", "u", "c", "t", "M", "p", "n">>

\* ------------------------------------------------------------ DataFrames

\* The missing value of a cell (pandas' NaN in an object column).
NaN == "NaN"

\* The texts read_csv turns into NaN (its default na_values; dtype=str does
\* not switch the detection off).
NAValues == {"", "#N/A", "#N/A N/A", "#NA", "-1.#IND", "-1.#QNAN", "-NaN", "-nan",
             "1.#IND", "1.#QNAN", "<NA>", "N/A", "NA", "NULL", "NaN", "None",
             "n/a", "nan", "null"}

EmptyFrame == [columns |-> <<>>, rows |-> <<>>]

\* The positions of the columns labelled `name`.
positions(df, name) == {j \in 1..Len(df.columns) : df.columns[j] = name}

\* df[name] for a label that is there once: the column's cells, row by row.
column(df, name) ==
    LET j == CHOOSE k \in positions(df, name) : TRUE
    IN  [i \in 1..Len(df.rows) |-> df.rows[i][j]]

\* The set of a sequence's elements.
Range(s) == {s[i] : i \in 1..Len(s)}

RECURSIVE concat(_)
\* The concatenation of a sequence of sequences.
concat(ss) == IF ss = <<>> THEN <<>> ELSE Head(ss) \o concat(Tail(ss))

RECURSIVE filter_positions(_, _)
\* The positions 1..n that are in `keep`, in ascending order.
filter_positions(n, keep) ==
    IF n = 0 THEN <<>>
    ELSE IF n \in keep THEN Append(filter_positions(n - 1, keep), n)
         ELSE filter_positions(n - 1, keep)

\* ------------------------------------------------------------ errors

NoError == [kind |-> "none", call |-> "none", file |-> "none",
            text |-> "none", missing |-> {}]

\* ------------------------------------------------------------ file operations

\* read_csv_file on a file that pandas can parse: every cell a text or NaN,
\* the column labels stripped.
read_csv_file(file) ==
    [columns |-> [j \in 1..Len(file.header) |-> str_strip(file.header[j])],
     rows    |-> [i \in 1..Len(file.rows) |->
                    [j \in 1..Len(file.rows[i]) |->
                        IF file.rows[i][j] \in NAValues THEN NaN
                        ELSE file.rows[i][j]]]]

\* validate_columns without lowering the DataFrame's labels.
validate_columns_case_sensitive(df, required_columns, file_name) ==
    LET df_columns     == Range(df.columns)
        required_lower == {str_lower(col) : col \in required_columns}
    IN  IF ~(required_lower \subseteq df_columns)
        THEN [kind |-> "ValueError", call |-> "validate_columns",
              file |-> file_name, text |-> "Missing columns",
              missing |-> required_lower \ df_columns]
        ELSE NoError

\* validate_columns: NoError when it returns, the ValueError it raises otherwise.
validate_columns(df, required_columns, file_name) ==
    LET df_columns     == {str_lower(c) : c \in Range(df.columns)}
        required_lower == {str_lower(col) : col \in required_columns}
    IN  IF ~(required_lower \subseteq df_columns)
        THEN [kind |-> "ValueError", call |-> "validate_columns",
              file |-> file_name, text |-> "Missing columns",
              missing |-> required_lower \ df_columns]
        ELSE NoError

\* normalize_columns
normalize_columns(df) ==
    [df EXCEPT !.columns = [j \in 1..Len(df.columns) |-> str_lower(df.columns[j])]]

\* ------------------------------------------------------------ data processing

\* gtin_sku_df[['sku', 'gtin']]: the columns with these labels, label by label.
select_columns(df, names) ==
    LET picks == concat([k \in 1..Len(names) |->
                    filter_positions(Len(df.columns), positions(df, names[k]))])
    IN  [columns |-> [k \in 1..Len(picks) |-> df.columns[picks[k]]],
         rows    |-> [i \in 1..Len(df.rows) |->
                        [k \in 1..Len(picks) |-> df.rows[i][picks[k]]]]]

\* pd.merge raises ValueError when the key label is not unique in a frame.
merge_raises(metabase_df, gtin_sku_df) ==
    \/ Cardinality(positions(metabase_df, n_sku)) # 1
    \/ Cardinality(positions(select_columns(gtin_sku_df, <<n_sku, n_gtin>>), n_sku)) # 1

\* The label of a merged column: a non-key label both frames have gets the
\* frame's suffix.
suffixed(label, other, suffix) ==
    IF label # n_sku /\ label \in Range(other.columns) THEN label \o suffix ELSE label

\* joined_rows of an inner join: a left row without a match is dropped.
joined_rows_inner(lrow, lkey, right, rkey, rrest) ==
    LET hits == filter_positions(Len(right.rows),
                    {j \in 1..Len(right.rows) : right.rows[j][rkey] = lkey})
    IN  [h \in 1..Len(hits) |->
            lrow \o [k \in 1..Len(rrest) |-> right.rows[hits[h]][rrest[k]]]]

\* The rows a left join makes of left row `lrow`: one per right row with the
\* same key (NaN keys match each other), in the right frame's order, or one
\* with NaN in the right frame's columns.
joined_rows(lrow, lkey, right, rkey, rrest) ==
    LET hits == filter_positions(Len(right.rows),
                    {j \in 1..Len(right.rows) : right.rows[j][rkey] = lkey})
    IN  IF hits = <<>>
        THEN << lrow \o [k \in 1..Len(rrest) |-> NaN] >>
        ELSE [h \in 1..Len(hits) |->
                lrow \o [k \in 1..Len(rrest) |-> right.rows[hits[h]][rrest[k]]]]

\* merge_dataframes with the catalog rows taken last to first.
merge_dataframes_reversed(metabase_df, gtin_sku_df) ==
    LET right == select_columns(gtin_sku_df, <<n_sku, n_gtin>>)
        lkey  == CHOOSE j \in positions(metabase_df, n_sku) : TRUE
        rkey  == CHOOSE j \in positions(right, n_sku) : TRUE
        rrest == filter_positions(Len(right.columns),
                                  (1..Len(right.columns)) \ {rkey})
        n     == Len(metabase_df.rows)
    IN  [columns |->
            [j \in 1..Len(metabase_df.columns) |->
                suffixed(metabase_df.columns[j], right, suffix_metabase)]
            \o [k \in 1..Len(rrest) |->
                suffixed(right.columns[rrest[k]], metabase_df, suffix_customer)],
         rows |->
            concat([i \in 1..n |->
                joined_rows(metabase_df.rows[n + 1 - i],
                            metabase_df.rows[n + 1 - i][lkey],
                            right, rkey, rrest)])]

\* merge_dataframes when pd.merge does not raise: the left join on 'sku'.
merge_dataframes(metabase_df, gtin_sku_df) ==
    LET right == select_columns(gtin_sku_df, <<n_sku, n_gtin>>)
        lkey  == CHOOSE j \in positions(metabase_df, n_sku) : TRUE
        rkey  == CHOOSE j \in positions(right, n_sku) : TRUE
        rrest == filter_positions(Len(right.columns),
                                  (1..Len(right.columns)) \ {rkey})
    IN  [columns |->
            [j \in 1..Len(metabase_df.columns) |->
                suffixed(metabase_df.columns[j], right, suffix_metabase)]
            \o [k \in 1..Len(rrest) |->
                suffixed(right.columns[rrest[k]], metabase_df, suffix_customer)],
         rows |->
            concat([i \in 1..Len(metabase_df.rows) |->
                joined_rows(metabase_df.rows[i], metabase_df.rows[i][lkey],
                            right, rkey, rrest)])]

\* The rows of merged_df whose gtin_customer is NaN, as positions.
missing_positions(merged_df) ==
    LET gtin_customer == column(merged_df, n_gtin_customer)
    IN  filter_positions(Len(merged_df.rows),
            {i \in 1..Len(merged_df.rows) : gtin_customer[i] = NaN})

\* handle_missing_gtins that drops the rows it warns about.
handle_missing_gtins_dropping(merged_df) ==
    LET miss == missing_positions(merged_df)
        kept == filter_positions(Len(merged_df.rows),
                    (1..Len(merged_df.rows)) \ Range(miss))
    IN  [printed |-> IF miss # <<>>
                     THEN << [k \in 1..Len(miss) |->
                                [sku  |-> column(merged_df, n_sku)[miss[k]],
                                 name |-> column(merged_df, n_name)[miss[k]]]] >>
                     ELSE <<>>,
         returned |-> [merged_df EXCEPT
                        !.rows = [k \in 1..Len(kept) |-> merged_df.rows[kept[k]]]]]

\* handle_missing_gtins: what it prints (the ['sku', 'name'] of the rows
\* without a customer GTIN, when there are any) and what it returns.
handle_missing_gtins(merged_df) ==
    LET miss == missing_positions(merged_df)
    IN  [printed |-> IF miss # <<>>
                     THEN << [k \in 1..Len(miss) |->
                                [sku  |-> column(merged_df, n_sku)[miss[k]],
                                 name |-> column(merged_df, n_name)[miss[k]]]] >>
                     ELSE <<>>,
         returned |-> merged_df]

\* Series.combine_first: a's value where it is not NaN, b's otherwise.
combine_first(a, b) == [i \in 1..Len(a) |-> IF a[i] # NaN THEN a[i] ELSE b[i]]

\* replace_gtin that prefers the catalog's GTIN.
replace_gtin_metabase_first(merged_df) ==
    LET final_gtin == combine_first(column(merged_df, n_gtin_metabase),
                                    column(merged_df, n_gtin_customer))
    IN  [columns |-> Append(merged_df.columns, n_final_gtin),
         rows    |-> [i \in 1..Len(merged_df.rows) |->
                        Append(merged_df.rows[i], final_gtin[i])]]

\* replace_gtin: the new column final_gtin.
replace_gtin(merged_df) ==
    LET final_gtin == combine_first(column(merged_df, n_gtin_customer),
                                    column(merged_df, n_gtin_metabase))
    IN  [columns |-> Append(merged_df.columns, n_final_gtin),
         rows    |-> [i \in 1..Len(merged_df.rows) |->
                        Append(merged_df.rows[i], final_gtin[i])]]

\* The columns of the dict prepare_final_dataframe builds the frame from.
DictColumns == <<n_email, n_reference, n_firstName, n_lastName,
                 n_transactionDate, n_productName, n_productSku, n_productUrl,
                 n_productImageUrl, n_productBrand, n_productGtin, n_productMpn>>

\* The column order prepare_final_dataframe returns the frame in.
OutputColumns == <<n_email, n_reference, n_firstName, n_lastName,
                   n_transactionDate, n_productName, n_productSku, n_productUrl,
                   n_productImageUrl, n_productBrand, n_productGtin, n_productMpn>>

\* The frame pd.DataFrame({...}) makes in prepare_final_dataframe, given what
\* the three generators returned for each row.
mock_frame(merged_df, emails, references, dates) ==
    [columns |-> DictColumns,
     rows    |-> [i \in 1..Len(merged_df.rows) |->
                    << emails[i], references[i], "MockFirstName", "MockLastName",
                       dates[i],
                       column(merged_df, n_name)[i],
                       column(merged_df, n_sku)[i],
                       column(merged_df, n_url)[i],
                       column(merged_df, n_image_url)[i],
                       column(merged_df, n_brand)[i],
                       column(merged_df, n_final_gtin)[i],
                       column(merged_df, n_mpn)[i] >>]]

\* DataFrame.fillna('')
fillna(df) ==
    [df EXCEPT !.rows = [i \in 1..Len(df.rows) |->
                            [j \in 1..Len(df.rows[i]) |->
                                IF df.rows[i][j] = NaN THEN "" ELSE df.rows[i][j]]]]

\* prepare_final_dataframe without the fillna.
prepare_final_dataframe_no_fillna(merged_df, emails, references, dates) ==
    select_columns(mock_frame(merged_df, emails, references, dates), OutputColumns)

\* prepare_final_dataframe that files the reference under productMpn.
prepare_final_dataframe_leaking(merged_df, emails, references, dates) ==
    LET df == fillna(mock_frame(merged_df, emails, references, dates))
    IN  [columns |-> OutputColumns,
         rows    |-> [i \in 1..Len(df.rows) |->
                        [j \in 1..Len(OutputColumns) |->
                            IF OutputColumns[j] = n_productMpn
                            THEN references[i]
                            ELSE column(df, OutputColumns[j])[i]]]]

\* prepare_final_dataframe: the mock frame, NaN filled with '', in the
\* output's column order.
prepare_final_dataframe(merged_df, emails, references, dates) ==
    select_columns(fillna(mock_frame(merged_df, emails, references, dates)),
                   OutputColumns)

\* ------------------------------------------------------------ mock data

\* Values generate_random_email can return.
Emails == <<"abcde@example.com", "fghijk@test.com", "lmnopqr@mail.com">>

\* Values generate_random_reference can return.
References == <<"1b4e28ba-2fa1-4d3b-a3f5-ef19b5a7633b", "6fa459ea-ee8a-4ca4-894e-db77e160355e",
                "16fd2706-8baf-433b-82eb-8c7fada847da">>

\* Values generate_random_transaction_date can return.
Dates == <<"03.11.2025", "17.02.2026", "30.06.2026">>

\* The values one generator returns over n calls, under stream `seed`.
generated(pool, seed, n) == [i \in 1..n |-> pool[((seed + i) % Len(pool)) + 1]]

\* ------------------------------------------------------------ files

\* check_file_exists: NoError when it returns, the FileNotFoundError otherwise.
check_file_exists(file, file_path) ==
    IF ~file.exists
    THEN [kind |-> "FileNotFoundError", call |-> "check_file_exists",
          file |-> file_path, text |-> "does not exist", missing |-> {}]
    ELSE NoError

\* The Exception read_csv_file raises when pd.read_csv fails on the file.
read_error(file_path) ==
    [kind |-> "Exception", call |-> "read_csv_file", file |-> file_path,
     text |-> "Error reading", missing |-> {}]

\* The Exception save_to_csv raises when DataFrame.to_csv fails.
write_error(file_path) ==
    [kind |-> "Exception", call |-> "save_to_csv", file |-> file_path,
     text |-> "Error writing to", missing |-> {}]

\* The ValueError of pd.merge, which merge_dataframes lets through.
merge_error ==
    [kind |-> "ValueError", call |-> "merge_dataframes", file |-> "none",
     text |-> "The column label 'sku' is not unique.", missing |-> {}]

NoFile == [state |-> "absent", lines |-> <<>>]

\* The lines of DataFrame.to_csv(index=False): the header, then the rows.
csv_lines(df) == <<df.columns>> \o df.rows

\* save_to_csv: every way the call can end, as the output file it leaves and
\* the error it raises.  to_csv opens the path for writing, writes the header
\* line and then the rows (in one chunk, for frames of this size); it may
\* fail to open (the path is left as it was), or fail after opening, before
\* or after the header line: what it wrote stays in the file, which nothing
\* removes.
save_to_csv(df, before) ==
    {[file |-> [state |-> "complete", lines |-> csv_lines(df)], raised |-> NoError]}
    \cup {[file |-> before, raised |-> write_error("output_file")]}
    \cup {[file |-> [state |-> "partial", lines |-> SubSeq(csv_lines(df), 1, k)],
           raised |-> write_error("output_file")] : k \in {0, 1}}

\* ------------------------------------------------------------ inputs

SeqsUpTo(S, n) == UNION {[1..k -> S] : k \in 0..n}

CustomerRecords ==
    {[sku |-> "SKU123", gtin |-> "4006381333931"],
     [sku |-> "SKU123", gtin |-> ""],
     [sku |-> "NA",     gtin |-> "9876543210987"],
     [sku |-> "SKU999", gtin |-> "1111111111111"]}

CatalogRecords ==
    {[sku |-> "SKU123", gtin |-> "0123456789123", name |-> "Product A",
      url |-> "http://example.com/a", image_url |-> "http://example.com/img/a",
      mpn |-> "MPN123", brand |-> "BrandX"],
     [sku |-> "SKU456", gtin |-> "", name |-> "Product B",
      url |-> "", image_url |-> "http://example.com/img/b",
      mpn |-> "n/a", brand |-> "BrandY"],
     [sku |-> "", gtin |-> "5555555555555", name |-> "Product C",
      url |-> "http://example.com/c", image_url |-> "http://example.com/img/c",
      mpn |-> "MPN789", brand |-> "NA"]}

\* The cell of a customer record under a header label.
customer_cell(rec, label) ==
    CASE str_lower(str_strip(label)) = n_sku  -> rec.sku
      [] str_lower(str_strip(label)) = n_gtin -> rec.gtin
      [] OTHER -> "x"

\* The cell of a catalog record under a header label.
catalog_cell(rec, label) ==
    CASE str_lower(str_strip(label)) = n_sku       -> rec.sku
      [] str_lower(str_strip(label)) = n_gtin      -> rec.gtin
      [] str_lower(str_strip(label)) = n_name      -> rec.name
      [] str_lower(str_strip(label)) = n_url       -> rec.url
      [] str_lower(str_strip(label)) = n_image_url -> rec.image_url
      [] str_lower(str_strip(label)) = n_mpn       -> rec.mpn
      [] str_lower(str_strip(label)) = n_brand     -> rec.brand
      [] OTHER -> "x"

MissingFile == [exists |-> FALSE, readable |-> FALSE, header |-> <<>>, rows |-> <<>>]

UnreadableFile == [exists |-> TRUE, readable |-> FALSE, header |-> <<>>, rows |-> <<>>]

customer_csv(header, recs) ==
    [exists |-> TRUE, readable |-> TRUE, header |-> header,
     rows |-> [i \in 1..Len(recs) |->
                [j \in 1..Len(header) |-> customer_cell(recs[i], header[j])]]]

catalog_csv(header, recs) ==
    [exists |-> TRUE, readable |-> TRUE, header |-> header,
     rows |-> [i \in 1..Len(recs) |->
                [j \in 1..Len(header) |-> catalog_cell(recs[i], header[j])]]]

\* Customer headers with both required columns, once each after lowering.
GoodCustomerHeaders ==
    {<<n_gtin, n_sku>>, <<n_SKU_padded, n_Gtin_padded, n_note>>}

\* Customer headers that lack 'sku', or hold it twice after lowering.
BadCustomerHeaders ==
    {<<n_gtin, n_product_code>>, <<n_sku, n_gtin, n_SKU_upper>>}

GoodCatalogHeaders ==
    {<<n_sku, n_gtin, n_name, n_url, n_image_url, n_mpn, n_brand>>,
     <<n_name, n_GTIN_upper, n_SKU_padded, n_url, n_Image_URL_mixed, n_mpn,
       n_brand, n_note>>}

BadCatalogHeaders ==
    {<<n_sku, n_gtin, n_name, n_url, n_image_url>>,
     <<n_sku, n_SKU_upper, n_gtin, n_name, n_url, n_image_url, n_mpn, n_brand>>}

CustomerFiles ==
    {MissingFile, UnreadableFile}
    \cup {customer_csv(h, recs) : h \in GoodCustomerHeaders,
                                  recs \in SeqsUpTo(CustomerRecords, MaxCustomerRows)}
    \cup {customer_csv(h, <<r>>) : h \in BadCustomerHeaders, r \in CustomerRecords}

CatalogFiles ==
    {MissingFile, UnreadableFile}
    \cup {catalog_csv(h, recs) : h \in GoodCatalogHeaders,
                                 recs \in SeqsUpTo(CatalogRecords, MaxCatalogRows)}
    \cup {catalog_csv(h, <<r>>) : h \in BadCatalogHeaders, r \in CatalogRecords}

\* Labels and required names handed to validate_columns on its own.
ValidateLabels == {n_sku, n_SKU_upper, n_gtin, n_name, n_product_code}

RequiredNames == {n_sku, n_gtin, n_GTIN_upper, n_name}

\* ------------------------------------------------------------ state

VARIABLES
    pc,             \* the call process_gtin_files makes next, "done" or "error"
    calls,          \* the calls it has made, in order
    gtin_sku_file,  \* the customer GTIN file
    metabase_file,  \* the catalog export file
    output_file,    \* the file at the output path
    gtin_sku_df, metabase_df, merged_df, final_df,
    raised,         \* the exception that ended the run, NoError if none
    warning_sink,   \* what handle_missing_gtins printed
    run,            \* 1, or 2 in a second run on the same inputs
    first_output,   \* the first run's final_df, in the second run
    vc              \* one call of validate_columns on its own

vars == <<pc, calls, gtin_sku_file, metabase_file, output_file, gtin_sku_df,
          metabase_df, merged_df, final_df, raised, warning_sink, run,
          first_output, vc>>

NoCall == [df |-> EmptyFrame, required_columns |-> {}, file_name |-> "none",
           called |-> FALSE, result |-> NoError]

\* The order of the calls with the customer file read before the catalog
\* path is checked.
after_reading_first(call) ==
    CASE call = "check_file_exists(gtin_sku_file)" -> "read_csv_file(gtin_sku_file)"
      [] call = "check_file_exists(metabase_file)" -> "validate_columns(gtin_sku_df)"
      [] call = "read_csv_file(gtin_sku_file)"     -> "check_file_exists(metabase_file)"
      [] call = "validate_columns(gtin_sku_df)"    -> "normalize_columns(gtin_sku_df)"
      [] call = "normalize_columns(gtin_sku_df)"   -> "read_csv_file(metabase_file)"
      [] call = "read_csv_file(metabase_file)"     -> "validate_columns(metabase_df)"
      [] call = "validate_columns(metabase_df)"    -> "normalize_columns(metabase_df)"
      [] call = "normalize_columns(metabase_df)"   -> "merge_dataframes"
      [] call = "merge_dataframes"                 -> "handle_missing_gtins"
      [] call = "handle_missing_gtins"             -> "replace_gtin"
      [] call = "replace_gtin"                     -> "prepare_final_dataframe"
      [] call = "prepare_final_dataframe"          -> "save_to_csv"
      [] call = "save_to_csv"                      -> "done"

\* The order of the calls in the body of process_gtin_files.
after(call) ==
    CASE call = "check_file_exists(gtin_sku_file)" -> "check_file_exists(metabase_file)"
      [] call = "check_file_exists(metabase_file)" -> "read_csv_file(gtin_sku_file)"
      [] call = "read_csv_file(gtin_sku_file)"     -> "validate_columns(gtin_sku_df)"
      [] call = "validate_columns(gtin_sku_df)"    -> "normalize_columns(gtin_sku_df)"
      [] call = "normalize_columns(gtin_sku_df)"   -> "read_csv_file(metabase_file)"
      [] call = "read_csv_file(metabase_file)"     -> "validate_columns(metabase_df)"
      [] call = "validate_columns(metabase_df)"    -> "normalize_columns(metabase_df)"
      [] call = "normalize_columns(metabase_df)"   -> "merge_dataframes"
      [] call = "merge_dataframes"                 -> "handle_missing_gtins"
      [] call = "handle_missing_gtins"             -> "replace_gtin"
      [] call = "replace_gtin"                     -> "prepare_final_dataframe"
      [] call = "prepare_final_dataframe"          -> "save_to_csv"
      [] call = "save_to_csv"                      -> "done"

Init ==
    /\ pc = "check_file_exists(gtin_sku_file)"
    /\ calls = <<>>
    /\ gtin_sku_file \in CustomerFiles
    /\ metabase_file \in CatalogFiles
    /\ output_file = NoFile
    /\ gtin_sku_df = EmptyFrame
    /\ metabase_df = EmptyFrame
    /\ merged_df = EmptyFrame
    /\ final_df = EmptyFrame
    /\ raised = NoError
    /\ warning_sink = <<>>
    /\ run = 1
    /\ first_output = EmptyFrame
    /\ vc = NoCall

\* A call that returned or raised `e`: the run goes on or ends.
Outcome(e) ==
    /\ calls' = Append(calls, pc)
    /\ raised' = e
    /\ pc' = IF e = NoError THEN after(pc) ELSE "error"

CheckGtinSkuFile ==
    /\ pc = "check_file_exists(gtin_sku_file)"
    /\ Outcome(check_file_exists(gtin_sku_file, "gtin_sku_file"))
    /\ UNCHANGED <<gtin_sku_file, metabase_file, output_file, gtin_sku_df,
                   metabase_df, merged_df, final_df, warning_sink, run,
                   first_output, vc>>

CheckMetabaseFile ==
    /\ pc = "check_file_exists(metabase_file)"
    /\ Outcome(check_file_exists(metabase_file, "metabase_file"))
    /\ UNCHANGED <<gtin_sku_file, metabase_file, output_file, gtin_sku_df,
                   metabase_df, merged_df, final_df, warning_sink, run,
                   first_output, vc>>

ReadGtinSkuFile ==
    /\ pc = "read_csv_file(gtin_sku_file)"
    /\ IF gtin_sku_file.readable
       THEN /\ gtin_sku_df' = read_csv_file(gtin_sku_file)
            /\ Outcome(NoError)
       ELSE /\ gtin_sku_df' = gtin_sku_df
            /\ Outcome(read_error("gtin_sku_file"))
    /\ UNCHANGED <<gtin_sku_file, metabase_file, output_file, metabase_df,
                   merged_df, final_df, warning_sink, run, first_output, vc>>

ValidateGtinSku ==
    /\ pc = "validate_columns(gtin_sku_df)"
    /\ Outcome(validate_columns(gtin_sku_df, {n_gtin, n_sku}, "gtin_sku_file"))
    /\ UNCHANGED <<gtin_sku_file, metabase_file, output_file, gtin_sku_df,
                   metabase_df, merged_df, final_df, warning_sink, run,
                   first_output, vc>>

NormalizeGtinSku ==
    /\ pc = "normalize_columns(gtin_sku_df)"
    /\ gtin_sku_df' = normalize_columns(gtin_sku_df)
    /\ Outcome(NoError)
    /\ UNCHANGED <<gtin_sku_file, metabase_file, output_file, metabase_df,
                   merged_df, final_df, warning_sink, run, first_output, vc>>

ReadMetabaseFile ==
    /\ pc = "read_csv_file(metabase_file)"
    /\ IF metabase_file.readable
       THEN /\ metabase_df' = read_csv_file(metabase_file)
            /\ Outcome(NoError)
       ELSE /\ metabase_df' = metabase_df
            /\ Outcome(read_error("metabase_file"))
    /\ UNCHANGED <<gtin_sku_file, metabase_file, output_file, gtin_sku_df,
                   merged_df, final_df, warning_sink, run, first_output, vc>>

ValidateMetabase ==
    /\ pc = "validate_columns(metabase_df)"
    /\ Outcome(validate_columns(metabase_df,
                   {n_sku, n_gtin, n_name, n_url, n_image_url, n_mpn, n_brand},
                   "metabase_file"))
    /\ UNCHANGED <<gtin_sku_file, metabase_file, output_file, gtin_sku_df,
                   metabase_df, merged_df, final_df, warning_sink, run,
                   first_output, vc>>

NormalizeMetabase ==
    /\ pc = "normalize_columns(metabase_df)"
    /\ metabase_df' = normalize_columns(metabase_df)
    /\ Outcome(NoError)
    /\ UNCHANGED <<gtin_sku_file, metabase_file, output_file, gtin_sku_df,
                   merged_df, final_df, warning_sink, run, first_output, vc>>

MergeDataframes ==
    /\ pc = "merge_dataframes"
    /\ IF merge_raises(metabase_df, gtin_sku_df)
       THEN /\ merged_df' = merged_df
            /\ Outcome(merge_error)
       ELSE /\ merged_df' = merge_dataframes(metabase_df, gtin_sku_df)
            /\ Outcome(NoError)
    /\ UNCHANGED <<gtin_sku_file, metabase_file, output_file, gtin_sku_df,
                   metabase_df, final_df, warning_sink, run, first_output, vc>>

HandleMissingGtins ==
    /\ pc = "handle_missing_gtins"
    /\ warning_sink' = warning_sink \o handle_missing_gtins(merged_df).printed
    /\ merged_df' = handle_missing_gtins(merged_df).returned
    /\ Outcome(NoError)
    /\ UNCHANGED <<gtin_sku_file, metabase_file, output_file, gtin_sku_df,
                   metabase_df, final_df, run, first_output, vc>>

ReplaceGtin ==
    /\ pc = "replace_gtin"
    /\ merged_df' = replace_gtin(merged_df)
    /\ Outcome(NoError)
    /\ UNCHANGED <<gtin_sku_file, metabase_file, output_file, gtin_sku_df,
                   metabase_df, final_df, warning_sink, run, first_output, vc>>

PrepareFinalDataframe ==
    /\ pc = "prepare_final_dataframe"
    /\ \E seed \in 1..NumSeeds :
          final_df' = prepare_final_dataframe(merged_df,
                          generated(Emails, seed, Len(merged_df.rows)),
                          generated(References, seed, Len(merged_df.rows)),
                          generated(Dates, seed, Len(merged_df.rows)))
    /\ Outcome(NoError)
    /\ UNCHANGED <<gtin_sku_file, metabase_file, output_file, gtin_sku_df,
                   metabase_df, merged_df, warning_sink, run, first_output, vc>>

SaveToCsv ==
    /\ pc = "save_to_csv"
    /\ \E end \in save_to_csv(final_df, output_file) :
          /\ output_file' = end.file
          /\ Outcome(end.raised)
    /\ UNCHANGED <<gtin_sku_file, metabase_file, gtin_sku_df, metabase_df,
                   merged_df, final_df, warning_sink, run, first_output, vc>>

\* process_gtin_files: one call of its body at a time.
Next ==
    \/ CheckGtinSkuFile
    \/ CheckMetabaseFile
    \/ ReadGtinSkuFile
    \/ ValidateGtinSku
    \/ NormalizeGtinSku
    \/ ReadMetabaseFile
    \/ ValidateMetabase
    \/ NormalizeMetabase
    \/ MergeDataframes
    \/ HandleMissingGtins
    \/ ReplaceGtin
    \/ PrepareFinalDataframe
    \/ SaveToCsv

Spec == Init /\ [][Next]_vars

\* A second call of process_gtin_files once the first has returned, on the
\* same two input files and the same output path.
RunAgain ==
    /\ pc = "done"
    /\ run = 1
    /\ run' = 2
    /\ first_output' = final_df
    /\ pc' = "check_file_exists(gtin_sku_file)"
    /\ calls' = <<>>
    /\ gtin_sku_df' = EmptyFrame
    /\ metabase_df' = EmptyFrame
    /\ merged_df' = EmptyFrame
    /\ final_df' = EmptyFrame
    /\ raised' = NoError
    /\ warning_sink' = <<>>
    /\ UNCHANGED <<gtin_sku_file, metabase_file, output_file, vc>>

NextTwoRuns == Next \/ RunAgain

\* The first of two runs starts on two files that are there and readable,
\* under the headers of the test files.
InitTwoRuns ==
    /\ Init
    /\ gtin_sku_file.readable /\ gtin_sku_file.header = <<n_gtin, n_sku>>
    /\ metabase_file.readable
    /\ metabase_file.header = <<n_sku, n_gtin, n_name, n_url, n_image_url, n_mpn, n_brand>>

SpecTwoRuns == InitTwoRuns /\ [][NextTwoRuns]_vars

\* validate_columns called once, on any labels and any required names.
InitValidate ==
    /\ pc = "idle"
    /\ calls = <<>>
    /\ gtin_sku_file = MissingFile
    /\ metabase_file = MissingFile
    /\ output_file = NoFile
    /\ gtin_sku_df = EmptyFrame
    /\ metabase_df = EmptyFrame
    /\ merged_df = EmptyFrame
    /\ final_df = EmptyFrame
    /\ raised = NoError
    /\ warning_sink = <<>>
    /\ run = 1
    /\ first_output = EmptyFrame
    /\ \E columns \in SeqsUpTo(ValidateLabels, MaxColumns),
          required \in SUBSET RequiredNames,
          file_name \in {"gtin_sku_file", "metabase_file"} :
          vc = [df |-> [columns |-> columns, rows |-> <<>>],
                required_columns |-> required, file_name |-> file_name,
                called |-> FALSE, result |-> NoError]

ValidateCall ==
    /\ pc = "idle"
    /\ ~vc.called
    /\ vc' = [vc EXCEPT !.called = TRUE,
                        !.result = validate_columns(vc.df, vc.required_columns,
                                                    vc.file_name)]
    /\ UNCHANGED <<pc, calls, gtin_sku_file, metabase_file, output_file,
                   gtin_sku_df, metabase_df, merged_df, final_df, raised,
                   warning_sink, run, first_output>>

NextValidate == ValidateCall

SpecValidate == InitValidate /\ [][NextValidate]_vars

\* ------------------------------------------------------------ properties

\* A cell as the output shows it: the empty text for a missing value.
Shown(v) == IF v = NaN THEN "" ELSE v

\* The cell of row i under `name`.
cell(df, i, name) == column(df, name)[i]

\* The output file read back as a frame: its header line and its rows.
written == [columns |-> Head(output_file.lines), rows |-> Tail(output_file.lines)]

\* A run that has written its output and returned.
Succeeded == pc = "done"

\* The customer rows that have the SKU of catalog row c.
matches(c) ==
    {m \in 1..Len(gtin_sku_df.rows) :
        cell(gtin_sku_df, m, n_sku) = cell(metabase_df, c, n_sku)}

\* C1, as stated: after a successful run every output row is the row of a
\* catalog row whose productGtin is a non-null customer GTIN for its SKU when
\* the customer dataset has one, and the catalog row's own GTIN otherwise
\* (read in the claim's favour: a missing catalog value as the output shows
\* it).
C1_AsStated ==
    Succeeded =>
        \A i \in 1..Len(written.rows) :
            \E c \in 1..Len(metabase_df.rows) :
                /\ cell(written, i, n_productSku) = Shown(cell(metabase_df, c, n_sku))
                /\ LET nonnull == {m \in matches(c) : cell(gtin_sku_df, m, n_gtin) # NaN}
                   IN  IF nonnull # {}
                       THEN \E m \in nonnull :
                               cell(written, i, n_productGtin) = cell(gtin_sku_df, m, n_gtin)
                       ELSE cell(written, i, n_productGtin)
                                = Shown(cell(metabase_df, c, n_gtin))

\* C1, amended: after a successful run every output row comes from a
\* catalog row and from one customer row with that row's SKU, or from none
\* when no customer row has the SKU; its productGtin is that customer row's
\* GTIN when it is not null and the catalog row's own GTIN otherwise, a
\* missing GTIN shown as the empty text.
C1_PerJoinedRow ==
    Succeeded =>
        \A i \in 1..Len(written.rows) :
            \E c \in 1..Len(metabase_df.rows) :
                /\ cell(written, i, n_productSku) = Shown(cell(metabase_df, c, n_sku))
                /\ IF matches(c) = {}
                   THEN cell(written, i, n_productGtin)
                            = Shown(cell(metabase_df, c, n_gtin))
                   ELSE \E m \in matches(c) :
                            cell(written, i, n_productGtin)
                                = Shown(IF cell(gtin_sku_df, m, n_gtin) # NaN
                                        THEN cell(gtin_sku_df, m, n_gtin)
                                        ELSE cell(metabase_df, c, n_gtin))

\* A successful run with a row that took the customer's GTIN, a row that
\* fell back to the catalog's for want of a customer row, and a row that fell
\* back because the customer's GTIN was null.
C1_Witness ==
    /\ Succeeded
    /\ \E i \in 1..Len(merged_df.rows) :
          /\ cell(merged_df, i, n_gtin_customer) # NaN
          /\ cell(merged_df, i, n_gtin_customer) # cell(merged_df, i, n_gtin_metabase)
          /\ cell(written, i, n_productGtin) = cell(merged_df, i, n_gtin_customer)
    /\ \E c \in 1..Len(metabase_df.rows) : matches(c) = {}
    /\ \E c \in 1..Len(metabase_df.rows) :
          \E m \in matches(c) : cell(gtin_sku_df, m, n_gtin) = NaN

RECURSIVE fanout(_)
\* The number of rows a left join makes of the first c catalog rows.
fanout(c) ==
    IF c = 0 THEN 0
    ELSE fanout(c - 1) + (IF matches(c) = {} THEN 1 ELSE Cardinality(matches(c)))

\* C2, as stated: a successful run writes exactly as many rows as the
\* catalog dataset has, whether or not SKUs repeat in either dataset.
C2_AsStated ==
    Succeeded => Len(written.rows) = Len(metabase_df.rows)

\* C2, amended: a successful run writes, for each catalog row, one row per
\* customer row with its SKU, and one row when there is none; so it writes
\* as many rows as the catalog has when no catalog row's SKU occurs more
\* than once in the customer dataset, and no catalog row is ever dropped.
C2_RowsPerCatalogRow ==
    Succeeded =>
        /\ Len(written.rows) = fanout(Len(metabase_df.rows))
        /\ Len(written.rows) >= Len(metabase_df.rows)
        /\ (\A c \in 1..Len(metabase_df.rows) : Cardinality(matches(c)) <= 1)
              => Len(written.rows) = Len(metabase_df.rows)

\* A successful run whose customer dataset repeats a catalog SKU.
C2_Witness ==
    /\ Succeeded
    /\ \E c \in 1..Len(metabase_df.rows) : Cardinality(matches(c)) > 1
    /\ \E c \in 1..Len(metabase_df.rows) : matches(c) = {}

\* C3: a run that ends in an error leaves no output file, not even a
\* partial one; an output file exists only after a run all of whose stages
\* succeeded.
C3_NoOutputOnFailure ==
    /\ pc = "error" => output_file.state = "absent"
    /\ output_file.state # "absent" => pc = "done"

\* The stages of the orchestrator, in the order the specification gives.
StageOrder ==
    <<"CheckExists(customer)", "CheckExists(catalog)", "Load(customer)",
      "Validate(customer)", "Normalize(customer)", "Load(catalog)",
      "Validate(catalog)", "Normalize(catalog)", "Reconcile", "Project", "Write">>

\* The stage a call of process_gtin_files belongs to: the join, the warning
\* and the coalesce make up Reconcile.
stage_of(call) ==
    CASE call = "check_file_exists(gtin_sku_file)" -> "CheckExists(customer)"
      [] call = "check_file_exists(metabase_file)" -> "CheckExists(catalog)"
      [] call = "read_csv_file(gtin_sku_file)"     -> "Load(customer)"
      [] call = "validate_columns(gtin_sku_df)"    -> "Validate(customer)"
      [] call = "normalize_columns(gtin_sku_df)"   -> "Normalize(customer)"
      [] call = "read_csv_file(metabase_file)"     -> "Load(catalog)"
      [] call = "validate_columns(metabase_df)"    -> "Validate(catalog)"
      [] call = "normalize_columns(metabase_df)"   -> "Normalize(catalog)"
      [] call = "merge_dataframes"                 -> "Reconcile"
      [] call = "handle_missing_gtins"             -> "Reconcile"
      [] call = "replace_gtin"                     -> "Reconcile"
      [] call = "prepare_final_dataframe"          -> "Project"
      [] call = "save_to_csv"                      -> "Write"

RECURSIVE stages(_)
\* The stages a sequence of calls went through, a stage of several calls
\* counted once.
stages(cs) ==
    IF cs = <<>> THEN <<>>
    ELSE LET before == stages(SubSeq(cs, 1, Len(cs) - 1))
             s      == stage_of(cs[Len(cs)])
         IN  IF before # <<>> /\ before[Len(before)] = s THEN before
             ELSE Append(before, s)

\* The stage that raised an error.
failed_stage(e) ==
    CASE e.call = "check_file_exists" /\ e.file = "gtin_sku_file" -> "CheckExists(customer)"
      [] e.call = "check_file_exists" /\ e.file = "metabase_file" -> "CheckExists(catalog)"
      [] e.call = "read_csv_file" /\ e.file = "gtin_sku_file"     -> "Load(customer)"
      [] e.call = "read_csv_file" /\ e.file = "metabase_file"     -> "Load(catalog)"
      [] e.call = "validate_columns" /\ e.file = "gtin_sku_file"  -> "Validate(customer)"
      [] e.call = "validate_columns" /\ e.file = "metabase_file"  -> "Validate(catalog)"
      [] e.call = "merge_dataframes"                              -> "Reconcile"
      [] e.call = "save_to_csv"                                   -> "Write"
      [] OTHER -> "none"

\* C4: the stages run in the order CheckExists(customer), CheckExists(catalog),
\* Load(customer), Validate(customer), Normalize(customer), Load(catalog),
\* Validate(catalog), Normalize(catalog), Reconcile, Project, Write, none
\* skipped and none after a failure (the stage that failed is the last one
\* begun); a run that returns went through all of them; and when either
\* input path is missing no Load is ever attempted and the run ends in the
\* missing-file error.
C4_StageOrder ==
    /\ Len(stages(calls)) <= Len(StageOrder)
    /\ stages(calls) = SubSeq(StageOrder, 1, Len(stages(calls)))
    /\ raised # NoError <=> pc = "error"
    /\ pc = "error" => stages(calls)[Len(stages(calls))] = failed_stage(raised)
    /\ pc = "done" => stages(calls) = StageOrder
    /\ pc \notin {"done", "error"} => stage_of(pc) \in Range(StageOrder)
    /\ (~gtin_sku_file.exists \/ ~metabase_file.exists) =>
          /\ "Load(customer)" \notin Range(stages(calls))
          /\ "Load(catalog)" \notin Range(stages(calls))
          /\ pc # "done"
          /\ pc = "error" => raised.kind = "FileNotFoundError"

\* A run that failed because the catalog path is missing while the customer
\* file is there and readable.
C4_Witness ==
    /\ pc = "error"
    /\ gtin_sku_file.exists /\ gtin_sku_file.readable
    /\ ~metabase_file.exists
    /\ calls = <<"check_file_exists(gtin_sku_file)", "check_file_exists(metabase_file)">>

\* C5: validate_columns returns exactly when every required name is among
\* the frame's labels, compared without regard to case; otherwise it raises
\* the schema error, whose message says "Missing columns", names the file
\* and lists exactly the required names that are absent, lower-cased.
C5_ValidateColumns ==
    vc.called =>
        LET present(r) == \E c \in Range(vc.df.columns) : str_lower(c) = str_lower(r)
            absent     == {str_lower(r) : r \in {q \in vc.required_columns : ~present(q)}}
        IN  /\ vc.result = NoError <=> \A r \in vc.required_columns : present(r)
            /\ vc.result # NoError =>
                  /\ vc.result.kind = "ValueError"
                  /\ vc.result.text = "Missing columns"
                  /\ vc.result.file = vc.file_name
                  /\ vc.result.missing = absent
                  /\ absent # {}

\* A call that fails for 'gtin' alone although the frame spells 'sku' in
\* capitals and the caller spells 'gtin' in capitals.
C5_Witness ==
    /\ vc.called
    /\ vc.required_columns = {n_sku, n_GTIN_upper}
    /\ n_SKU_upper \in Range(vc.df.columns)
    /\ n_sku \notin Range(vc.df.columns)
    /\ vc.result.missing = {n_gtin}

\* The frame prepare_final_dataframe returned is in final_df.
Projected == "prepare_final_dataframe" \in Range(calls)

\* C6: prepare_final_dataframe returns one row per reconciled row, with
\* exactly the twelve columns email, reference, firstName, lastName,
\* transactionDate, productName, productSku, productUrl, productImageUrl,
\* productBrand, productGtin, productMpn in this order; the i-th row's
\* product columns are the i-th reconciled row's name, sku, url, image_url,
\* brand, final_gtin and mpn, its firstName and lastName the two literals,
\* and no cell is null: a null value is the empty text.
C6_Projection ==
    Projected =>
        /\ final_df.columns = <<n_email, n_reference, n_firstName, n_lastName,
                                n_transactionDate, n_productName, n_productSku,
                                n_productUrl, n_productImageUrl, n_productBrand,
                                n_productGtin, n_productMpn>>
        /\ Len(final_df.rows) = Len(merged_df.rows)
        /\ \A i \in 1..Len(final_df.rows) :
              /\ Len(final_df.rows[i]) = Len(final_df.columns)
              /\ final_df.rows[i][3] = "MockFirstName"
              /\ final_df.rows[i][4] = "MockLastName"
              /\ final_df.rows[i][6] = Shown(cell(merged_df, i, n_name))
              /\ final_df.rows[i][7] = Shown(cell(merged_df, i, n_sku))
              /\ final_df.rows[i][8] = Shown(cell(merged_df, i, n_url))
              /\ final_df.rows[i][9] = Shown(cell(merged_df, i, n_image_url))
              /\ final_df.rows[i][10] = Shown(cell(merged_df, i, n_brand))
              /\ final_df.rows[i][11] = Shown(cell(merged_df, i, n_final_gtin))
              /\ final_df.rows[i][12] = Shown(cell(merged_df, i, n_mpn))
              /\ \A j \in 1..Len(final_df.rows[i]) : final_df.rows[i][j] # NaN

\* A projection of several reconciled rows, one of them with a null product
\* column and one with a null final_gtin.
C6_Witness ==
    /\ Projected
    /\ Len(final_df.rows) > 1
    /\ \E i \in 1..Len(merged_df.rows) : cell(merged_df, i, n_url) = NaN
    /\ \E i \in 1..Len(merged_df.rows) : cell(merged_df, i, n_final_gtin) = NaN

\* The columns that are not synthesized anew in each run.
StableColumns == {n_firstName, n_lastName, n_productName, n_productSku,
                  n_productUrl, n_productImageUrl, n_productBrand,
                  n_productGtin, n_productMpn}

\* C7: a second successful run on the same inputs writes as many rows as
\* the first and, row by row, the same productGtin, productName, productSku,
\* productUrl, productImageUrl, productBrand and productMpn (and the same two
\* name literals), whatever the generators returned in either run.
C7_SameProductColumns ==
    (run = 2 /\ Succeeded) =>
        /\ Len(written.rows) = Len(first_output.rows)
        /\ written.columns = first_output.columns
        /\ \A i \in 1..Len(written.rows) :
              \A name \in StableColumns :
                  cell(written, i, name) = cell(first_output, i, name)

\* Two successful runs whose outputs have rows and differ in the
\* synthesized columns.
C7_Witness ==
    /\ run = 2
    /\ Succeeded
    /\ Len(written.rows) > 1
    /\ cell(written, 1, n_email) # cell(first_output, 1, n_email)
    /\ cell(written, 1, n_reference) # cell(first_output, 1, n_reference)
    /\ cell(written, 1, n_transactionDate) # cell(first_output, 1, n_transactionDate)

\* The frame handle_missing_gtins was given is in merged_df (replace_gtin
\* only adds a column to it).
Warned == "handle_missing_gtins" \in Range(calls)

\* The reconciled rows without a customer GTIN.
unmatched == {i \in 1..Len(merged_df.rows) : cell(merged_df, i, n_gtin_customer) = NaN}

\* What C8 says of each state: the warning sink holds nothing before the
\* warning step and when no reconciled row lacks a customer GTIN, and
\* otherwise one table with the sku and name of exactly the rows that lack
\* it, in their order; once coalesced, those rows carry the catalog's GTIN
\* as final_gtin, and the output shows it as productGtin; and a run that
\* warned and reached Write can still succeed.
C8_State ==
    /\ ~Warned => warning_sink = <<>>
    /\ Warned =>
          LET rows == filter_positions(Len(merged_df.rows), unmatched)
          IN  IF unmatched = {} THEN warning_sink = <<>>
              ELSE warning_sink =
                      << [k \in 1..Len(rows) |->
                            [sku  |-> cell(merged_df, rows[k], n_sku),
                             name |-> cell(merged_df, rows[k], n_name)]] >>
    /\ "replace_gtin" \in Range(calls) =>
          \A i \in unmatched :
              cell(merged_df, i, n_final_gtin) = cell(merged_df, i, n_gtin_metabase)
    /\ Projected =>
          \A i \in unmatched :
              cell(final_df, i, n_productGtin) = Shown(cell(merged_df, i, n_gtin_metabase))
    /\ (pc = "save_to_csv" /\ warning_sink # <<>>) =>
          \E end \in save_to_csv(final_df, output_file) : end.raised = NoError

\* What C8 says of each step: the warning step returns the reconciled
\* dataset as it was given and goes on to the coalesce, and no step from the
\* warning to the projection ends the run.
C8_Step ==
    /\ pc = "handle_missing_gtins" => (merged_df' = merged_df /\ pc' = "replace_gtin")
    /\ pc \in {"handle_missing_gtins", "replace_gtin", "prepare_final_dataframe"}
          => (pc' # "error" /\ raised' = NoError)

\* C8: handle_missing_gtins reports exactly the reconciled rows whose
\* gtin_customer is null, and nothing when there are none, leaves the
\* reconciled dataset unchanged and never halts the run; those rows carry
\* the catalog GTIN.
C8_WarningIsAdvisory == [](C8_State) /\ [][C8_Step]_vars

\* A run that warned about some rows, not all, and succeeded.
C8_Witness ==
    /\ Succeeded
    /\ warning_sink # <<>>
    /\ unmatched # {}
    /\ unmatched # 1..Len(merged_df.rows)

\* The error kind each failing stage of the claim raises.
ErrorKindOf ==
    [missing_file |-> check_file_exists(MissingFile, "gtin_sku_file").kind,
     file_read    |-> read_error("gtin_sku_file").kind,
     schema       |-> validate_columns(EmptyFrame, {n_sku}, "gtin_sku_file").kind,
     file_write   |-> write_error("output_file").kind]

\* C9: the four error kinds are pairwise distinct, so the kind of the error
\* that ended a run belongs to one failing stage only.
C9_KindIdentifiesStage ==
    pc = "error" =>
        \A a, b \in DOMAIN ErrorKindOf :
            (ErrorKindOf[a] = raised.kind /\ ErrorKindOf[b] = raised.kind) => a = b

RECURSIVE follows(_, _)
\* out is cat with every element kept, in order, one or more times over.
follows(out, cat) ==
    IF cat = <<>> THEN out = <<>>
    ELSE /\ out # <<>>
         /\ Head(out) = Head(cat)
         /\ \/ follows(Tail(out), Tail(cat))
            \/ follows(Tail(out), cat)

\* No SKU occurs twice in the customer dataset.
CustomerSkusUnique ==
    \A m1, m2 \in 1..Len(gtin_sku_df.rows) :
        cell(gtin_sku_df, m1, n_sku) = cell(gtin_sku_df, m2, n_sku) => m1 = m2

\* C10, as stated: every productSku of the output is the sku of a catalog
\* row, the output rows are in the order of the catalog rows they come
\* from, and with unique customer SKUs the productSku column is the
\* catalog's sku column.
C10_AsStated ==
    Succeeded =>
        /\ \A i \in 1..Len(written.rows) :
              cell(written, i, n_productSku) \in Range(column(metabase_df, n_sku))
        /\ follows(column(written, n_productSku), column(metabase_df, n_sku))
        /\ CustomerSkusUnique =>
              column(written, n_productSku) = column(metabase_df, n_sku)

\* The catalog's sku column as the output shows it.
shown_skus == [c \in 1..Len(metabase_df.rows) |-> Shown(cell(metabase_df, c, n_sku))]

\* C10, amended: the same of the catalog's SKUs as the output shows them, a
\* missing SKU being written as the empty text.
C10_FollowsCatalog ==
    Succeeded =>
        /\ \A i \in 1..Len(written.rows) :
              cell(written, i, n_productSku) \in Range(shown_skus)
        /\ follows(column(written, n_productSku), shown_skus)
        /\ CustomerSkusUnique => column(written, n_productSku) = shown_skus

\* A successful run on a catalog of different SKUs and a customer dataset
\* with a SKU the catalog does not have.
C10_Witness ==
    /\ Succeeded
    /\ Len(metabase_df.rows) > 1
    /\ cell(metabase_df, 1, n_sku) # cell(metabase_df, 2, n_sku)
    /\ \E m \in 1..Len(gtin_sku_df.rows) :
          cell(gtin_sku_df, m, n_sku) \notin Range(column(metabase_df, n_sku))
    /\ CustomerSkusUnique

=============================================================================
